---- MODULE Spec2Model ----
(***************************************************************************)
(* Model of pay_periods.py: the command-line driver (argument parsing and  *)
(* dispatch), the start-date validator datetime_string, and the generator  *)
(* PayPeriods.list with its two loops, including the exceptions the date   *)
(* library raises (ValueError from fromisoformat, OverflowError from       *)
(* datetime + timedelta).                                                  *)
(*                                                                         *)
(* A string is a sequence of one-character strings.  A datetime is a       *)
(* record [year, month, day] (the time of day is always midnight here).    *)
(***************************************************************************)
EXTENDS Integers, Sequences, FiniteSets, TLC

VARIABLES
    argv,                   \* the command line (sys.argv), as its options
    pc,                     \* position of the process
    command,                \* args.command
    days_per_pay_period,    \* args.days_per_pay_period
    number_of_pay_periods,  \* args.number_of_pay_periods
    start_datetime,         \* args.start_datetime (a string)
    work_datetime,          \* local of list()
    work_datetimes,         \* local of list()
    end_datetimes,          \* the values of the "end" expression, line 100
    response,               \* local of list()
    returned,               \* TRUE once list() has returned to the caller
    result,                 \* what the caller received from list()
    exc,                    \* exception in flight ("" when none)
    calls,                  \* number of calls of PayPeriods.list
    stdout,                 \* lines printed on standard output
    stderr,                 \* kinds of text written to standard error
    status                  \* exit status (-1 while running)

vars == <<argv, pc, command, days_per_pay_period, number_of_pay_periods,
          start_datetime, work_datetime, work_datetimes, end_datetimes,
          response, returned, result, exc, calls, stdout, stderr, status>>

-----------------------------------------------------------------------------
(* Bounds of the model and program constants *)

MaxCount == 3

BigDays == 1500000

YearDays == 365

DEFAULT_DAYS_PER_PAY_PERIOD == 14

DEFAULT_NUMBER_OF_PAY_PERIODS == 26

-----------------------------------------------------------------------------
(* Characters and strings *)

NL == "\n"

Digits == <<"0", "1", "2", "3", "4", "5", "6", "7", "8", "9">>

IsDigit(c) == \E k \in 1..10 : Digits[k] = c

DigitVal(c) == (CHOOSE k \in 1..10 : Digits[k] = c) - 1

\* "%02d"-style formatting of a number 0..99
Pad2(k) == <<Digits[(k \div 10) + 1], Digits[(k % 10) + 1]>>

Pad4(k) == Pad2(k \div 100) \o Pad2(k % 100)

-----------------------------------------------------------------------------
(* The proleptic Gregorian calendar of the date library *)

IsLeap(y) == (y % 4 = 0) /\ ((y % 100 # 0) \/ (y % 400 = 0))

DaysInMonth(y, m) ==
    IF m = 2 THEN (IF IsLeap(y) THEN 29 ELSE 28)
    ELSE IF m \in {4, 6, 9, 11} THEN 30 ELSE 31

RECURSIVE DaysBeforeMonth(_, _)
DaysBeforeMonth(y, m) ==
    IF m <= 1 THEN 0 ELSE DaysBeforeMonth(y, m - 1) + DaysInMonth(y, m - 1)

DaysBeforeYear(y) ==
    LET p == y - 1 IN p * 365 + (p \div 4) - (p \div 100) + (p \div 400)

ymd2ord(dt) ==
    DaysBeforeYear(dt.year) + DaysBeforeMonth(dt.year, dt.month) + dt.day

MAXYEAR_DATE == [year |-> 9999, month |-> 12, day |-> 31]

MaxOrdinal == ymd2ord(MAXYEAR_DATE)

\* the library's conversion of an ordinal to year, month, day
ord2ymd(ordinal) ==
    LET n0   == ordinal - 1
        n400 == n0 \div 146097
        r400 == n0 % 146097
        n100 == r400 \div 36524
        r100 == r400 % 36524
        n4   == r100 \div 1461
        r4   == r100 % 1461
        n1   == r4 \div 365
        n    == r4 % 365
        year == n400 * 400 + 1 + n100 * 100 + n4 * 4 + n1
        leap == (n1 = 3) /\ ((n4 # 24) \/ (n100 = 3))
        est  == (n + 50) \div 32
        prec == DaysBeforeMonth(IF leap THEN 4 ELSE 1, est)
        month == IF prec > n THEN est - 1 ELSE est
        before == DaysBeforeMonth(IF leap THEN 4 ELSE 1, month)
    IN  IF n1 = 4 \/ n100 = 4
        THEN [year |-> year - 1, month |-> 12, day |-> 31]
        ELSE [year |-> year, month |-> month, day |-> n - before + 1]

\* None, as the value of work_datetime before the first iteration
NoneDT == [year |-> 0, month |-> 0, day |-> 0]

Ok(v) == [exc |-> "", val |-> v]

Raise(e) == [exc |-> e, val |-> NoneDT]

-----------------------------------------------------------------------------
(* Library operations used by PayPeriods.list *)

\* datetime.fromisoformat on a string: YYYY-MM-DD, then the range checks of
\* the datetime constructor; anything else is a ValueError
fromisoformat(s) ==
    IF /\ Len(s) = 10
       /\ \A i \in {1, 2, 3, 4, 6, 7, 9, 10} : IsDigit(s[i])
       /\ s[5] = "-" /\ s[8] = "-"
    THEN LET y == DigitVal(s[1]) * 1000 + DigitVal(s[2]) * 100
                  + DigitVal(s[3]) * 10 + DigitVal(s[4])
             m == DigitVal(s[6]) * 10 + DigitVal(s[7])
             d == DigitVal(s[9]) * 10 + DigitVal(s[10])
         IN  IF /\ y >= 1
                /\ m >= 1 /\ m <= 12
                /\ d >= 1 /\ d <= DaysInMonth(y, m)
             THEN Ok([year |-> y, month |-> m, day |-> d])
             ELSE Raise("ValueError")
    ELSE Raise("ValueError")

\* datetime + timedelta(days=k): timedelta limits |days| to 999999999, and
\* the sum must be a date from 0001-01-01 to 9999-12-31
AddDays(dt, k) ==
    IF k > 999999999 \/ k < -999999999
    THEN Raise("OverflowError")
    ELSE LET o == ymd2ord(dt) + k
         IN  IF o >= 1 /\ o <= MaxOrdinal
             THEN Ok(ord2ymd(o))
             ELSE Raise("OverflowError")

\* decimal text of a number 0..99 without padding ("%-m")
Unpadded(k) == IF k < 10 THEN <<Digits[k + 1]>> ELSE Pad2(k)

\* mutant: month and day formatted without zero padding
strftime_md_NoPad(dt) == Unpadded(dt.month) \o Unpadded(dt.day)

\* datetime.strftime("%m%d")
strftime_md(dt) == Pad2(dt.month) \o Pad2(dt.day)

\* mutant: the loop stops one iteration early
RangeExhausted_Early(k, n) == k >= n - 1

\* line 89: range(n) has no further value after k iterations
RangeExhausted(k, n) == k >= n

\* mutant: the next period starts on the last day of the previous one
NextWork_Short(dt, days) == AddDays(dt, days - 1)

\* line 91: the start of the next period
NextWork(dt, days) == AddDays(dt, days)

\* mutant: the end is a whole period after the start
EndOf_OffByOne(dt, days) == AddDays(dt, days)

\* line 100: the end of a period
EndOf(dt, days) == AddDays(dt, days - 1)

\* line 104: f"e_{beg}_{end}"
Item(beg, end) == <<"e", "_">> \o beg \o <<"_">> \o end

\* tabulate(response, headers="keys", tablefmt="plain") as the lines print
\* writes: the header and one line per record; an empty line for no record
HeaderLine == <<"p", "a", "y", "_", "p", "e", "r", "i", "o", "d">>

Tabulate(resp) ==
    IF resp = <<>> THEN << <<>> >>
    ELSE <<HeaderLine>> \o [i \in 1..Len(resp) |-> resp[i].pay_period]

-----------------------------------------------------------------------------
(* datetime_string: re.search(r"^2[0-9][0-9][0-9]-[0-9][0-9]-[0-9][0-9]$") *)

\* the ten pattern items matched from offset p (0-based) of s
MatchBody(s, p) ==
    /\ p + 10 <= Len(s)
    /\ s[p + 1] = "2"
    /\ \A i \in {2, 3, 4, 6, 7, 9, 10} : s[p + i] \in {Digits[k] : k \in 1..10}
    /\ s[p + 5] = "-" /\ s[p + 8] = "-"

\* "^" without MULTILINE: only at the start of the string
CaretAt(s, p) == p = 0

\* "$" without MULTILINE: at the end of the string, or just before a newline
\* that is the last character of the string
DollarAt(s, p) ==
    \/ p = Len(s)
    \/ (p = Len(s) - 1 /\ s[Len(s)] = NL)

regex_search(s) ==
    \E p \in 0..Len(s) : CaretAt(s, p) /\ MatchBody(s, p) /\ DollarAt(s, p + 10)

\* datetime_string(value): the value itself, or ArgumentTypeError
datetime_string(value) ==
    IF ~regex_search(value)
    THEN [exc |-> "ArgumentTypeError", val |-> <<>>]
    ELSE [exc |-> "", val |-> value]

-----------------------------------------------------------------------------
(* The command lines considered *)

Years == {2024, 2026, 2999}

MonthDays == {<<1, 1>>, <<6, 15>>, <<12, 28>>, <<12, 31>>, <<2, 28>>,
              <<2, 29>>, <<2, 30>>, <<4, 31>>, <<13, 1>>, <<0, 10>>,
              <<1, 0>>, <<1, 32>>}

IsoText(y, m, d) == Pad4(y) \o <<"-">> \o Pad2(m) \o <<"-">> \o Pad2(d)

WellFormed == {IsoText(y, md[1], md[2]) : y \in Years, md \in MonthDays}

Base == IsoText(2026, 1, 1)

OtherChars == {"/", "a", NL, "-", " "}

Replaced(s, i, c) == [s EXCEPT ![i] = c]

Malformed ==
    {Replaced(Base, i, c) : i \in 1..Len(Base), c \in {"/", "a"}}
    \cup {Base \o <<c>> : c \in OtherChars \cup {"0"}}
    \cup {<<c>> \o Base : c \in OtherChars \cup {"2"}}
    \cup {Base \o <<NL, NL>>, Base \o <<NL>> \o Base, <<>>,
          SubSeq(Base, 3, 10), SubSeq(Base, 1, 9),
          IsoText(1999, 12, 31), IsoText(3000, 1, 1),
          IsoText(2026, 2, 30) \o <<NL>>}

StartStrings == WellFormed \cup Malformed

DaysChoices == {-1, 0, 1, 7, DEFAULT_DAYS_PER_PAY_PERIOD, YearDays, BigDays}

CountChoices == (-1..MaxCount) \cup {DEFAULT_NUMBER_OF_PAY_PERIODS}

UsageLine == <<"u", "s", "a", "g", "e">>

\* a command line: the sub-command word ("" when there is none), the -d and
\* -n values (the defaults when the options are absent), and -s if given
ArgvSet ==
    {[command |-> c, days |-> DEFAULT_DAYS_PER_PAY_PERIOD,
      number |-> DEFAULT_NUMBER_OF_PAY_PERIODS, has_start |-> FALSE,
      start |-> <<>>] : c \in {"", "other", "list"}}
    \cup [command : {"list"}, days : DaysChoices, number : CountChoices,
          has_start : {TRUE}, start : StartStrings]

-----------------------------------------------------------------------------
(* The process *)

Init ==
    /\ argv \in ArgvSet
    /\ pc = "start"
    /\ command = "None"
    /\ days_per_pay_period = DEFAULT_DAYS_PER_PAY_PERIOD
    /\ number_of_pay_periods = DEFAULT_NUMBER_OF_PAY_PERIODS
    /\ start_datetime = <<>>
    /\ work_datetime = NoneDT
    /\ work_datetimes = <<>>
    /\ end_datetimes = <<>>
    /\ response = <<>>
    /\ returned = FALSE
    /\ result = <<>>
    /\ exc = ""
    /\ calls = 0
    /\ stdout = <<>>
    /\ stderr = <<>>
    /\ status = -1

ListLocals == <<work_datetime, work_datetimes, end_datetimes, response>>

Args == <<argv, command, days_per_pay_period, number_of_pay_periods,
          start_datetime>>

\* parser.error: usage on standard error, exit status 2
ParserError ==
    /\ pc' = "exited"
    /\ stderr' = Append(stderr, "usage")
    /\ status' = 2
    /\ UNCHANGED <<Args, ListLocals, returned, result, exc, calls, stdout>>

\* parse_args, no sub-command on the command line: args.command is None
ParseNoCommand ==
    /\ pc = "start"
    /\ argv.command = ""
    /\ pc' = "parsed"
    /\ command' = "None"
    /\ UNCHANGED <<argv, days_per_pay_period, number_of_pay_periods, start_datetime,
                   ListLocals, returned, result, exc, calls, stdout, stderr,
                   status>>

\* parse_args, a sub-command that is not "list": invalid choice
ParseUnknownCommand ==
    /\ pc = "start"
    /\ argv.command \notin {"", "list"}
    /\ ParserError

\* parse_args, "list" without the required -s
ParseListNoStart ==
    /\ pc = "start"
    /\ argv.command = "list"
    /\ ~argv.has_start
    /\ ParserError

\* parse_args, "list" with -d, -n (or their defaults) and -s
ParseList ==
    /\ pc = "start"
    /\ argv.command = "list"
    /\ argv.has_start
    /\ LET v == datetime_string(argv.start)
       IN  IF v.exc # ""
           THEN ParserError
           ELSE /\ pc' = "parsed"
                /\ command' = "list"
                /\ days_per_pay_period' = argv.days
                /\ number_of_pay_periods' = argv.number
                /\ start_datetime' = v.val
                /\ UNCHANGED <<argv, ListLocals, returned, result, exc, calls,
                                  stdout, stderr, status>>

\* lines 205-212 and 80-86: the call of PayPeriods.list, its log line and
\* the initialisation of its locals
CallList ==
    /\ pc = "parsed"
    /\ command = "list"
    /\ pc' = "loop1"
    /\ calls' = calls + 1
    /\ stderr' = Append(stderr, "info")
    /\ response' = <<>>
    /\ work_datetimes' = <<>>
    /\ work_datetime' = NoneDT
    /\ end_datetimes' = <<>>
    /\ UNCHANGED <<Args, returned, result, exc, stdout, status>>

\* mutant: the help is printed but the script ends normally (no exit(1))
PrintHelp_NoExit ==
    /\ pc = "parsed"
    /\ command # "list"
    /\ pc' = "exited"
    /\ stdout' = Append(stdout, UsageLine)
    /\ status' = 0
    /\ UNCHANGED <<Args, ListLocals, returned, result, exc, calls, stderr>>

\* lines 215-217: print_help and exit(1)
PrintHelp ==
    /\ pc = "parsed"
    /\ command # "list"
    /\ pc' = "exited"
    /\ stdout' = Append(stdout, UsageLine)
    /\ status' = 1
    /\ UNCHANGED <<Args, ListLocals, returned, result, exc, calls, stderr>>

\* lines 89-96: one iteration of the first loop
Loop1Step ==
    /\ pc = "loop1"
    /\ ~RangeExhausted(Len(work_datetimes), number_of_pay_periods)
    /\ LET r == IF work_datetime # NoneDT
                THEN NextWork(work_datetime, days_per_pay_period)
                ELSE fromisoformat(start_datetime)
       IN  IF r.exc # ""
           THEN /\ pc' = "raised"
                /\ exc' = r.exc
                /\ UNCHANGED <<work_datetime, work_datetimes>>
           ELSE /\ pc' = "loop1"
                /\ work_datetime' = r.val
                /\ work_datetimes' = Append(work_datetimes, r.val)
                /\ UNCHANGED exc
    /\ UNCHANGED <<Args, end_datetimes, response, returned, result, calls,
                   stdout, stderr, status>>

\* line 89: range(number_of_pay_periods) is exhausted
Loop1Done ==
    /\ pc = "loop1"
    /\ RangeExhausted(Len(work_datetimes), number_of_pay_periods)
    /\ pc' = "loop2"
    /\ UNCHANGED <<Args, ListLocals, returned, result, exc, calls, stdout,
                   stderr, status>>

\* lines 98-106: one iteration of the second loop
Loop2Step ==
    /\ pc = "loop2"
    /\ Len(response) < Len(work_datetimes)
    /\ LET wd  == work_datetimes[Len(response) + 1]
           beg == strftime_md(wd)
           e   == EndOf(wd, days_per_pay_period)
       IN  /\ work_datetime' = wd
           /\ IF e.exc # ""
              THEN /\ pc' = "raised"
                   /\ exc' = e.exc
                   /\ UNCHANGED <<response, end_datetimes>>
              ELSE /\ pc' = "loop2"
                   /\ response' = Append(response,
                         [pay_period |-> Item(beg, strftime_md(e.val))])
                   /\ end_datetimes' = Append(end_datetimes, e.val)
                   /\ UNCHANGED exc
    /\ UNCHANGED <<Args, work_datetimes, returned, result, calls, stdout,
                   stderr, status>>

\* line 108 and the assignment of line 212: return response
ListReturn ==
    /\ pc = "loop2"
    /\ Len(response) >= Len(work_datetimes)
    /\ pc' = "render"
    /\ returned' = TRUE
    /\ result' = response
    /\ UNCHANGED <<Args, ListLocals, exc, calls, stdout, stderr, status>>

\* line 213, then the end of the script: exit status 0
Render ==
    /\ pc = "render"
    /\ pc' = "exited"
    /\ stdout' = stdout \o Tabulate(result)
    /\ status' = 0
    /\ UNCHANGED <<Args, ListLocals, returned, result, exc, calls, stderr>>

\* mutant: the records built so far are printed when the exception passes
Uncaught_PrintsPartial ==
    /\ pc = "raised"
    /\ pc' = "exited"
    /\ stdout' = stdout \o Tabulate(response)
    /\ stderr' = Append(stderr, "traceback")
    /\ status' = 1
    /\ UNCHANGED <<Args, ListLocals, returned, result, exc, calls>>

\* an exception nobody catches: traceback on standard error, exit status 1
Uncaught ==
    /\ pc = "raised"
    /\ pc' = "exited"
    /\ stderr' = Append(stderr, "traceback")
    /\ status' = 1
    /\ UNCHANGED <<Args, ListLocals, returned, result, exc, calls, stdout>>

Next ==
    \/ ParseNoCommand
    \/ ParseUnknownCommand
    \/ ParseListNoStart
    \/ ParseList
    \/ CallList
    \/ PrintHelp
    \/ Loop1Step
    \/ Loop1Done
    \/ Loop2Step
    \/ ListReturn
    \/ Render
    \/ Uncaught

Spec == Init /\ [][Next]_vars

-----------------------------------------------------------------------------
(* Vocabulary of the properties: the calendar stated independently of the  *)
(* ordinal arithmetic above                                                *)

WalkLimit == 100

\* exactly '2', three digits, '-', two digits, '-', two digits
ExactPattern(s) ==
    /\ Len(s) = 10
    /\ s[1] = "2"
    /\ \A i \in {2, 3, 4, 6, 7, 9, 10} : IsDigit(s[i])
    /\ s[5] = "-"
    /\ s[8] = "-"

TextYear(s) == DigitVal(s[1]) * 1000 + DigitVal(s[2]) * 100
               + DigitVal(s[3]) * 10 + DigitVal(s[4])

TextMonth(s) == DigitVal(s[6]) * 10 + DigitVal(s[7])

TextDay(s) == DigitVal(s[9]) * 10 + DigitVal(s[10])

\* a string of the pattern that names a day of the calendar
IsCalendarDate(s) ==
    /\ ExactPattern(s)
    /\ TextMonth(s) \in 1..12
    /\ TextDay(s) \in 1..DaysInMonth(TextYear(s), TextMonth(s))

DateOf(s) == [year |-> TextYear(s), month |-> TextMonth(s), day |-> TextDay(s)]

NextDay(dt) ==
    IF dt.day < DaysInMonth(dt.year, dt.month)
    THEN [dt EXCEPT !.day = dt.day + 1]
    ELSE IF dt.month < 12
         THEN [year |-> dt.year, month |-> dt.month + 1, day |-> 1]
         ELSE [year |-> dt.year + 1, month |-> 1, day |-> 1]

RECURSIVE Walk(_, _)
Walk(dt, k) == IF k = 0 THEN dt ELSE Walk(NextDay(dt), k - 1)

\* dt plus k days: day by day for short spans, by ordinal for long ones
PlusDays(dt, k) ==
    IF k <= WalkLimit THEN Walk(dt, k) ELSE ord2ymd(ymd2ord(dt) + k)

DateLT(a, b) ==
    \/ a.year < b.year
    \/ (a.year = b.year /\ a.month < b.month)
    \/ (a.year = b.year /\ a.month = b.month /\ a.day < b.day)

DateLE(a, b) == a = b \/ DateLT(a, b)

\* the inputs list() was called with are valid: a positive period length,
\* a non-negative count and a real calendar date
ValidInputs ==
    /\ command = "list"
    /\ days_per_pay_period >= 1
    /\ number_of_pay_periods >= 0
    /\ IsCalendarDate(start_datetime)

\* every date the computation needs is at most 9999-12-31
Representable ==
    \/ number_of_pay_periods = 0
    \/ ymd2ord(DateOf(start_datetime))
         + number_of_pay_periods * days_per_pay_period - 1 <= MaxOrdinal

\* "MMDD" of a date, digit by digit
MMDD(dt) == <<Digits[(dt.month \div 10) + 1], Digits[(dt.month % 10) + 1],
              Digits[(dt.day \div 10) + 1], Digits[(dt.day % 10) + 1]>>

LabelOf(b, e) == <<"e", "_">> \o MMDD(b) \o <<"_">> \o MMDD(e)

-----------------------------------------------------------------------------
(* C1: contiguity.  With daysPerPeriod >= 1 and a valid start date, every  *)
(* period i that has a successor ends the day before the successor starts: *)
(* the start of period i+1 is the calendar day after the end of period i,  *)
(* and no period ends before it starts.                                    *)
C1_Contiguity ==
    (calls > 0 /\ days_per_pay_period >= 1 /\ IsCalendarDate(start_datetime))
    => \A i \in 1..Len(end_datetimes) :
          /\ DateLE(work_datetimes[i], end_datetimes[i])
          /\ i + 1 <= Len(work_datetimes)
                => /\ work_datetimes[i + 1] = NextDay(end_datetimes[i])
                   /\ DateLT(end_datetimes[i], work_datetimes[i + 1])

\* at least two periods were returned, and some period ends on the last day
\* of a year with its successor starting on 1 January
C1_Witness ==
    /\ returned
    /\ ValidInputs
    /\ number_of_pay_periods >= 2
    /\ Len(end_datetimes) = number_of_pay_periods
    /\ \E i \in 1..(Len(end_datetimes) - 1) :
          /\ end_datetimes[i].month = 12
          /\ end_datetimes[i].day = 31
          /\ work_datetimes[i + 1].year = end_datetimes[i].year + 1

-----------------------------------------------------------------------------
C2_WitnessEmpty ==
    /\ pc = "exited"
    /\ returned
    /\ ValidInputs
    /\ number_of_pay_periods = 0
    /\ result = <<>>

-----------------------------------------------------------------------------
(* C3: for valid inputs, record i (from 0) returned by list() is the label *)
(* "e_" MMDD(start + i*d days) "_" MMDD(start + i*d + d - 1 days), the      *)
(* periods being in ascending chronological order; with the three          *)
(* scenarios of the specification as concrete cases.                       *)
E_1228_0103 == <<"e", "_", "1", "2", "2", "8", "_", "0", "1", "0", "3">>

E_0104_0110 == <<"e", "_", "0", "1", "0", "4", "_", "0", "1", "1", "0">>

E_0101_0114 == <<"e", "_", "0", "1", "0", "1", "_", "0", "1", "1", "4">>

E_0115_0128 == <<"e", "_", "0", "1", "1", "5", "_", "0", "1", "2", "8">>

E_0129_0211 == <<"e", "_", "0", "1", "2", "9", "_", "0", "2", "1", "1">>

E_0615_0615 == <<"e", "_", "0", "6", "1", "5", "_", "0", "6", "1", "5">>

-----------------------------------------------------------------------------
(* C10: every label list() builds is "e_", four digits, "_", four digits,  *)
(* each group a two-digit month 01-12 followed by a two-digit day 01-31.   *)
TwoDigits(l, i) == DigitVal(l[i]) * 10 + DigitVal(l[i + 1])

WellFormedLabel(l) ==
    /\ Len(l) = 11
    /\ l[1] = "e" /\ l[2] = "_" /\ l[7] = "_"
    /\ \A i \in {3, 4, 5, 6, 8, 9, 10, 11} : IsDigit(l[i])
    /\ TwoDigits(l, 3) \in 1..12
    /\ TwoDigits(l, 5) \in 1..31
    /\ TwoDigits(l, 8) \in 1..12
    /\ TwoDigits(l, 10) \in 1..31

-----------------------------------------------------------------------------
(* C4: a call of list() with daysPerPeriod = 0 or negative fails with an   *)
(* error and returns no sequence of labels; stated here for the calls      *)
(* whose other two inputs are valid (a count of at least one and a real    *)
(* calendar date), where nothing else can make the call fail.              *)
C4_NonPositiveDaysFails ==
    (calls > 0 /\ days_per_pay_period <= 0
       /\ number_of_pay_periods >= 1 /\ IsCalendarDate(start_datetime))
    => (~returned /\ (pc = "exited" => exc # ""))

(* C5: a call of list() with periodCount < 0 fails with an error; it is    *)
(* never answered with an empty sequence; stated here for the calls whose  *)
(* other two inputs are valid.                                             *)
C5_NegativeCountFails ==
    (calls > 0 /\ number_of_pay_periods < 0
       /\ days_per_pay_period >= 1 /\ IsCalendarDate(start_datetime))
    => (~returned /\ (pc = "exited" => exc # ""))

(* C6: a start date of the pattern 2ddd-dd-dd that is no calendar date     *)
(* makes list() fail for every periodCount >= 0, periodCount = 0 included; *)
(* such a date never yields a returned sequence; stated here for a         *)
(* positive daysPerPeriod.                                                 *)
C6_UnrealDateFails ==
    (calls > 0 /\ number_of_pay_periods >= 0 /\ days_per_pay_period >= 1
       /\ ExactPattern(start_datetime) /\ ~IsCalendarDate(start_datetime))
    => (~returned /\ (pc = "exited" => exc # ""))

(* C7: datetime_string accepts the -s text if and only if it is exactly    *)
(* '2', three digits, '-', two digits, '-', two digits; any other text is  *)
(* rejected so that list() is never called with it; an accepted text is    *)
(* handed on unchanged.                                                    *)
C7_ValidatorExact ==
    /\ (pc # "start" /\ argv.command = "list" /\ argv.has_start)
          => /\ (command = "list") <=> ExactPattern(argv.start)
             /\ command = "list" => start_datetime = argv.start
    /\ calls > 0 => ExactPattern(start_datetime)

-----------------------------------------------------------------------------
(* C8: no partial failure.  The caller of list() either receives the       *)
(* complete sequence or nothing: at no time has it received, or has the    *)
(* process printed, at least one label but fewer than all of them, and a   *)
(* run that raised has delivered and printed no label at all.              *)
PrintedLabels ==
    Cardinality({i \in 1..Len(stdout) : stdout[i] # HeaderLine
                                        /\ stdout[i] # UsageLine
                                        /\ stdout[i] # <<>>})

Complete(k) == k = 0 \/ k = number_of_pay_periods

C8_NoPartialFailure ==
    /\ Complete(Len(result))
    /\ Complete(PrintedLabels)
    /\ returned => result = response /\ Len(response) = Len(work_datetimes)
    /\ ~returned => result = <<>>
    /\ (exc # "" \/ ~returned) => (result = <<>> /\ PrintedLabels = 0)

\* the second loop failed after it had built some, but not all, labels, and
\* the process has ended without delivering or printing any
C8_Witness ==
    /\ pc = "exited"
    /\ exc = "OverflowError"
    /\ Len(response) >= 1
    /\ Len(response) < number_of_pay_periods
    /\ result = <<>>
    /\ PrintedLabels = 0

-----------------------------------------------------------------------------
(* C9 as stated: without a recognized sub-command the driver prints usage, *)
(* never calls list() and ends with a non-zero status; with "list" and     *)
(* valid arguments list() is called exactly once, its result is rendered   *)
(* and the process ends with status 0.                                     *)
UsagePrinted ==
    \/ \E i \in 1..Len(stdout) : stdout[i] = UsageLine
    \/ \E i \in 1..Len(stderr) : stderr[i] = "usage"

NoSubcommandOutcome ==
    (pc = "exited" /\ argv.command # "list")
    => (UsagePrinted /\ calls = 0 /\ status # 0 /\ ~returned)

ListSuccessOutcome ==
    /\ calls = 1
    /\ returned
    /\ stdout = Tabulate(result)
    /\ status = 0

C9_WitnessHelp ==
    /\ pc = "exited"
    /\ argv.command = ""
    /\ stdout = <<UsageLine>>
    /\ calls = 0
    /\ status = 1

====
